---- MODULE Spec2Model ----
(***************************************************************************)
(* Model of the long-document orchestration pipeline of Preciz:            *)
(* DocumentOrchestrator.generate_document with its tools (AppendTool,      *)
(* ReviewTool, ImproveTool) and the checkpoint OrchestrationState, from    *)
(* src/preciz/agents/teaching/orchestrator.py.                             *)
(*                                                                         *)
(* Python indices are kept 0-based (i, current_task_index); the task list  *)
(* is a TLA+ sequence, so task i is tasks[i + 1].  A generated text is     *)
(* abstracted to the record [task, ver, lines, endsNl]: the task it was    *)
(* written for, how many improve calls produced it (0 = the draft), the    *)
(* value of len(content.split("\n")) and whether it ends with a newline.   *)
(* The output file is the sequence of chunks written to it, each with the  *)
(* number of newline characters it holds.                                  *)
(***************************************************************************)
EXTENDS Integers, Sequences, FiniteSets, TLC

\* ---------------------------------------------------------------- bounds
MaxTasks == 6          \* longest outline create_todo_list returns in Spec
MaxIter == 2           \* largest max_iterations argument
MaxRuns == 3           \* calls of generate_document against the same files in Spec
MaxTasksIO == 2        \* longest outline in SpecIO
MaxRunsIO == 2         \* calls of generate_document in SpecIO
MaxContentLines == 8   \* longest generated text, in lines
MaxSections == 2       \* most sections of an outline object in a parsed response
MaxTargetLines == 1050 \* largest target_lines given to the numbered-parts strategy
MaxParts == 3          \* largest explicit part count
MaxContextChars == 1200 \* longest context handed to a prompt builder, in characters
MaxSectionTasks == 5   \* most numbered parts in SpecSections
MaxFileChars == 3      \* longest output file handed to AppendTool.append directly, in characters
MaxTextChars == 3      \* longest content handed to AppendTool.append directly, in characters
MaxLoadTasks == 2      \* most tasks of a checkpoint handed to OrchestrationState.load directly
MaxBlocks == 2         \* most items (text or mermaid blocks) of a section handed to verify_and_convert_mermaid
MaxBufferChars == 3    \* most characters of an Editor buffer

\* ------------------------------------------------------ program constants
SaveEvery == 5         \* i % 5 == 0
HeaderNewlines == 6    \* "# {topic}\n\n*Generated by Preciz*\n\n---\n\n"
SectionContextCap == 800  \* context[-800:] if len(context) > 800
BlockContextCap == 1000   \* context[:1000] if len(context) > 1000
NumSummaries == 3         \* num_summaries = 3
RecentChars == 500        \* content[-500:] if len(content) > 500
MermaidRetries == 3       \* max_retries=3 of convert_mermaid_with_retry

VARIABLES
    pc,                 \* position of the run inside generate_document
    max_iterations,     \* argument max_iterations
    state_file,         \* argument state_file: TRUE = a path, FALSE = None
    tasks,              \* state.tasks (in memory)
    current_task_index, \* state.current_task_index (in memory)
    total_lines,        \* state.total_lines (in memory)
    i,                  \* loop variable i of the task loop
    iteration,          \* loop variable of the review loop
    content,            \* local variable content
    feedback,           \* local variable feedback
    stateFile,          \* the state file on disk: <<>> or <<checkpoint>>
    docExists,          \* whether the output file exists
    doc,                \* the output file on disk: sequence of chunks
    runs,               \* history: number of generate_document calls so far
    resumedFrom,        \* history: index loaded at the start of this run, -1 if fresh
    lowCall,            \* history: lowest task a model call of this run was for, -1 if none
    highCall,           \* history: highest task a model call of this run was for, -1 if none
    appended,           \* history: tasks appended by this run, in order
    generated,          \* history: tasks this run made a generation call for, in order
    nReviews,           \* history: review calls for the current section
    nImproves,          \* history: improve calls for the current section
    passedVer,          \* history: version of the content reviewed as passed, -1 if none
    lastAppend,         \* history: the last AppendTool.append call
    outlineCalled,      \* history: this run called create_todo_list
    tool,               \* the last direct call of a tool or outline strategy, with its result
    cli                 \* the run of the command line main(): its position and locals

vars == <<pc, max_iterations, state_file, tasks, current_task_index, total_lines,
          i, iteration, content, feedback, stateFile, docExists, doc, runs,
          resumedFrom, lowCall, highCall, appended, nReviews, nImproves, passedVer, lastAppend,
          outlineCalled, generated, tool, cli>>

memVars == <<tasks, current_task_index, total_lines>>
diskVars == <<stateFile, docExists, doc>>
argVars == <<max_iterations, state_file>>
sideVars == <<tool, cli>>
pipelineVars == <<pc, max_iterations, state_file, tasks, current_task_index, total_lines,
                  i, iteration, content, feedback, stateFile, docExists, doc, runs,
                  resumedFrom, lowCall, highCall, appended, nReviews, nImproves,
                  passedVer, lastAppend, outlineCalled, generated>>
sectionHist == <<nReviews, nImproves, passedVer, generated>>
callHist == <<lowCall, highCall, outlineCalled>>

\* ------------------------------------------------------------ data model
NoContent == [task |-> -1, ver |-> 0, lines |-> 0, endsNl |-> FALSE]
NoAppend == [task |-> -1, ver |-> 0, before |-> 0, after |-> 0, content_lines |-> 0,
             written |-> 0, raised |-> FALSE]

\* No tool has been called directly; main() has not started.
NoCall == [op |-> "none"]
CliStart == [pc |-> "start"]

\* BlockTask(title=..., ...): content is never passed and defaults to "",
\* which NoContent stands for.
BlockTask(title, description, level, require_mermaid, require_table, require_examples, completed, summary) ==
    [title |-> title, description |-> description, level |-> level,
     require_mermaid |-> require_mermaid, require_table |-> require_table,
     require_examples |-> require_examples, completed |-> completed,
     content |-> NoContent, summary |-> summary]

\* The section at position k of the outline create_todo_list decoded: the
\* title is the position, the other entries differ from section to section.
OutlineSection(k) ==
    [title |-> k, description |-> k, level |-> 1 + (k % 2), require_mermaid |-> k % 2 = 1,
     require_table |-> k % 3 = 0, require_examples |-> k % 2 = 0]

\* tasks.append(BlockTask(title=section["title"], ...)) of create_todo_list:
\* completed and summary keep their defaults False and ""
TodoTask(section) ==
    BlockTask(section.title, section.description, section.level, section.require_mermaid,
              section.require_table, section.require_examples, FALSE, "")

\* The arguments of the run that the state carries along.
RunHeader ==
    [topic |-> "topic", output_file |-> "recorded.md", target_lines |-> MaxTargetLines,
     start_time |-> 1]

\* The shapes <<lines, endsNl>> of a model response: "x", "x\n", a long text.
ContentShapes == {<<1, FALSE>>, <<2, TRUE>>, <<MaxContentLines, FALSE>>}

\* Line counts decide nothing when no append is disturbed: Spec draws every
\* response from one shape, SpecIO from all of them.
OneShape == {<<2, TRUE>>}

\* How much of a disturbed write is found in the file, in newlines.
LandedChoices == {0, 2}

\* The values ReviewTool.review can return, by their "passed" entry.
Feedbacks == {"pass", "fail", "nokey"}

\* feedback.get("passed", True)
FeedbackPassed(fb) == fb # "fail"

Running == {"gen", "review", "improve", "append", "save", "cleanup"}
Stopped == {"idle", "done", "error", "io_error", "interrupted", "crashed"}

\* ----------------------------------------------------------- AppendTool
RECURSIVE Newlines(_)
Newlines(d) == IF d = <<>> THEN 0 ELSE Head(d).nl + Newlines(Tail(d))

\* len(self.output_file.read_text().split("\n"))
SplitLen(d) == Newlines(d) + 1

get_line_countNoExistsCheck(exists, d) == SplitLen(d)

\* AppendTool.get_line_count
get_line_count(exists, d) == IF ~exists THEN 0 ELSE SplitLen(d)

\* newline characters written by append: the content's own, one more if it
\* does not end with one, and the spacer
WrittenNewlines(c) == (c.lines - 1) + (IF c.endsNl THEN 0 ELSE 1) + 1

\* expected_count = before_count + content_lines + 2
expected_count(before_count, content_lines) == before_count + content_lines + 2

\* after_count < expected_count * 0.5
AppendRaises(before_count, after_count, content_lines) ==
    2 * after_count < expected_count(before_count, content_lines)

\* ------------------------------------------------------ OrchestrationState
\* OrchestrationState.save
\* The dictionary save writes for a task.
SavedTask(t) ==
    [title |-> t.title, description |-> t.description, level |-> t.level,
     require_mermaid |-> t.require_mermaid, require_table |-> t.require_table,
     require_examples |-> t.require_examples, completed |-> t.completed,
     summary |-> t.summary]

CheckpointWithoutFlags(ts, cti, tl) ==
    [topic |-> RunHeader.topic, output_file |-> RunHeader.output_file,
     target_lines |-> RunHeader.target_lines, current_task_index |-> cti,
     total_lines |-> tl, start_time |-> RunHeader.start_time,
     tasks |-> [j \in DOMAIN ts |->
                   [SavedTask(ts[j]) EXCEPT !.require_mermaid = FALSE, !.require_table = FALSE,
                                            !.require_examples = TRUE]]]

\* OrchestrationState.save
Checkpoint(ts, cti, tl) ==
    [topic |-> RunHeader.topic, output_file |-> RunHeader.output_file,
     target_lines |-> RunHeader.target_lines, current_task_index |-> cti,
     total_lines |-> tl, start_time |-> RunHeader.start_time,
     tasks |-> [j \in DOMAIN ts |-> SavedTask(ts[j])]]

\* BlockTask(title=t["title"], ...) of load, for a dictionary save wrote
LoadedTask(t) ==
    BlockTask(t.title, t.description, t.level, t.require_mermaid, t.require_table,
              t.require_examples, t.completed, t.summary)

\* OrchestrationState.load: the tasks of the checkpoint
LoadTasksReversed(cp) ==
    [j \in DOMAIN cp.tasks |->
        [LoadedTask(cp.tasks[Len(cp.tasks) + 1 - j]) EXCEPT !.completed = cp.tasks[j].completed]]

LoadTasks(cp) == [j \in DOMAIN cp.tasks |-> LoadedTask(cp.tasks[j])]

LoadIndexFromZero(cp) == 0

\* OrchestrationState.load: current_task_index=data["current_task_index"]
LoadIndex(cp) == cp.current_task_index

\* -------------------------------------------------------------- the run
ShouldBuildOutlineAlways(configured, sf) == TRUE

\* not (state_file and Path(state_file).exists()): the else branch of
\* "Create or load state"
ShouldBuildOutline(configured, sf) == ~(configured /\ sf # <<>>)

\* for i in range(first, len(state.tasks)): where the loop goes for index k
LoopAt(k, ts) == IF k < Len(ts) THEN "gen" ELSE "cleanup"

Init ==
    /\ pc = "idle"
    /\ max_iterations \in 0..MaxIter
    /\ state_file \in BOOLEAN
    /\ tasks = <<>>
    /\ current_task_index = 0
    /\ total_lines = 0
    /\ i = 0
    /\ iteration = 0
    /\ content = NoContent
    /\ feedback = "pass"
    /\ stateFile = <<>>
    /\ docExists = FALSE
    /\ doc = <<>>
    /\ runs = 0
    /\ resumedFrom = -1
    /\ lowCall = -1
    /\ highCall = -1
    /\ appended = <<>>
    /\ generated = <<>>
    /\ nReviews = 0
    /\ nImproves = 0
    /\ passedVer = -1
    /\ lastAppend = NoAppend
    /\ outlineCalled = FALSE
    /\ tool = NoCall
    /\ cli = CliStart

\* History of a run that is starting.
StartHist(outline) ==
    /\ outlineCalled' = outline
    /\ runs' = runs + 1
    /\ appended' = <<>>
    /\ generated' = <<>>
    /\ lowCall' = -1
    /\ highCall' = -1
    /\ nReviews' = 0
    /\ nImproves' = 0
    /\ passedVer' = -1
    /\ lastAppend' = NoAppend

\* generate_document, no state file to resume from: create_todo_list returns
\* n tasks, the header is written, AppendTool is constructed.
StartFresh(maxTasks, maxRuns) ==
    /\ pc \in Stopped \ {"done"}
    /\ runs < maxRuns
    /\ ShouldBuildOutline(state_file, stateFile)
    /\ \E n \in 0..maxTasks :
         /\ tasks' = [j \in 1..n |-> TodoTask(OutlineSection(j - 1))]
         /\ pc' = LoopAt(0, tasks')
    /\ current_task_index' = 0
    /\ docExists' = TRUE
    /\ doc' = <<[task |-> -1, nl |-> HeaderNewlines]>>
    /\ total_lines' = get_line_count(TRUE, doc')
    /\ i' = 0
    /\ iteration' = 0
    /\ content' = NoContent
    /\ feedback' = "pass"
    /\ resumedFrom' = -1
    /\ StartHist(TRUE)
    /\ UNCHANGED <<sideVars, argVars, stateFile>>

\* generate_document, no state file: create_todo_list raises (model error,
\* "Could not parse outline", JSON decode error) before anything is written.
StartFails(maxRuns) ==
    /\ pc \in Stopped \ {"done"}
    /\ runs < maxRuns
    /\ ShouldBuildOutline(state_file, stateFile)
    /\ pc' = "error"
    /\ tasks' = <<>>
    /\ current_task_index' = 0
    /\ total_lines' = 0
    /\ i' = 0
    /\ iteration' = 0
    /\ content' = NoContent
    /\ feedback' = "pass"
    /\ resumedFrom' = -1
    /\ StartHist(TRUE)
    /\ UNCHANGED <<sideVars, argVars, diskVars>>

\* generate_document, state file exists: OrchestrationState.load, then
\* AppendTool is constructed (creating an empty output file if missing).
StartResume(maxRuns) ==
    /\ pc \in Stopped \ {"done"}
    /\ runs < maxRuns
    /\ ~ShouldBuildOutline(state_file, stateFile)
    /\ tasks' = LoadTasks(stateFile[1])
    /\ current_task_index' = LoadIndex(stateFile[1])
    /\ docExists' = TRUE
    /\ total_lines' = get_line_count(TRUE, doc)
    /\ i' = current_task_index'
    /\ pc' = LoopAt(i', tasks')
    /\ iteration' = 0
    /\ content' = NoContent
    /\ feedback' = "pass"
    /\ resumedFrom' = stateFile[1].current_task_index
    /\ StartHist(FALSE)
    /\ UNCHANGED <<sideVars, argVars, stateFile, doc>>

ReviewLoopAtLeastOnce(k, maxit) == IF k < maxit \/ k = 0 THEN "review" ELSE "append"

ReviewLoopOffByOne(k, maxit) == IF k <= maxit THEN "review" ELSE "append"

\* range(max_iterations): where the review loop goes for iteration k
ReviewLoopAt(k, maxit) == IF k < maxit THEN "review" ELSE "append"

\* History: a model call of this run is for task k.
CallFor(k) ==
    /\ lowCall' = IF lowCall = -1 \/ k < lowCall THEN k ELSE lowCall
    /\ highCall' = IF k > highCall THEN k ELSE highCall
    /\ outlineCalled' = outlineCalled

\* self.generate_tool.generate(...): one model call, the draft of task i
Generate(shapes) ==
    /\ pc = "gen"
    /\ \E sh \in shapes :
         content' = [task |-> i, ver |-> 0, lines |-> sh[1], endsNl |-> sh[2]]
    /\ iteration' = 0
    /\ pc' = ReviewLoopAt(0, max_iterations)
    /\ CallFor(i)
    /\ generated' = Append(generated, i)
    /\ nReviews' = 0
    /\ nImproves' = 0
    /\ passedVer' = -1
    /\ UNCHANGED <<sideVars, argVars, memVars, diskVars, i, feedback, runs, resumedFrom,
                   appended, lastAppend>>

AfterReviewNoBreak(fb) == "improve"

\* if feedback.get("passed", True): break / else: improve
AfterReview(fb) == IF FeedbackPassed(fb) THEN "append" ELSE "improve"

\* feedback = self.review_tool.review(content, task.title), then the branch
Review ==
    /\ pc = "review"
    /\ \E fb \in Feedbacks :
         /\ feedback' = fb
         /\ pc' = AfterReview(fb)
         /\ passedVer' = IF fb = "pass" /\ passedVer = -1 THEN content.ver ELSE passedVer
    /\ CallFor(i)
    /\ nReviews' = nReviews + 1
    /\ UNCHANGED <<sideVars, argVars, memVars, diskVars, i, iteration, content, runs,
                   resumedFrom, appended, nImproves, lastAppend, generated>>

improveKeepsInput(c, fb, response) == [content |-> c, requests |-> 1]

improveAlwaysCalls(c, fb, response) == [content |-> response, requests |-> 1]

\* ImproveTool.improve / improve_with_preferences: the text returned and the
\* number of model requests made; response is what the model would answer.
improve(c, fb, response) ==
    IF FeedbackPassed(fb)
    THEN [content |-> c, requests |-> 0]
    ELSE [content |-> response, requests |-> 1]

\* content = self.improve_tool.improve(content, task.title, feedback), then
\* the next iteration of the review loop.
Improve(shapes) ==
    /\ pc = "improve"
    /\ \E sh \in shapes :
         LET response == [task |-> i, ver |-> content.ver + 1,
                          lines |-> sh[1], endsNl |-> sh[2]]
             r == improve(content, feedback, response)
         IN /\ content' = r.content
            /\ nImproves' = nImproves + r.requests
            /\ IF r.requests > 0 THEN CallFor(i) ELSE UNCHANGED callHist
    /\ iteration' = iteration + 1
    /\ pc' = ReviewLoopAt(iteration + 1, max_iterations)
    /\ UNCHANGED <<sideVars, argVars, memVars, diskVars, i, feedback, runs, resumedFrom,
                   appended, nReviews, passedVer, lastAppend, generated>>

\* self.llm.complete raises inside generate, review or improve: nothing in
\* generate_document catches it.
ModelError ==
    /\ pc \in {"gen", "review", "improve"}
    /\ pc' = "error"
    /\ UNCHANGED <<sideVars, argVars, memVars, diskVars, i, iteration, content, feedback,
                   runs, resumedFrom, callHist, appended, sectionHist, lastAppend>>

MarkCompletedNot(ts, k) == ts

\* task.completed = True
MarkCompleted(ts, k) == [ts EXCEPT ![k + 1].completed = TRUE]

TasksAfterAppendEager(ts, k, raised) == MarkCompleted(ts, k)

\* state.total_lines = append_tool.append(content); task.completed = True:
\* the second statement runs only if the first returned
TasksAfterAppend(ts, k, raised) == IF raised THEN ts ELSE MarkCompleted(ts, k)

\* state.current_task_index = i + 1, likewise
IndexAfterAppend(cti, k, raised) == IF raised THEN cti ELSE k + 1

\* AppendTool.append(content) and the two assignments after it; landed is
\* the number of newline characters of the write that reached the file.
AppendSection(landed) ==
    /\ pc = "append"
    /\ docExists
    /\ LET before_count == SplitLen(doc)
           chunk == [task |-> content.task, nl |-> landed]
           after_count == SplitLen(Append(doc, chunk))
           raised == AppendRaises(before_count, after_count, content.lines)
       IN /\ doc' = Append(doc, chunk)
          /\ lastAppend' = [task |-> i, ver |-> content.ver, before |-> before_count, after |-> after_count,
                            content_lines |-> content.lines,
                            written |-> WrittenNewlines(content), raised |-> raised]
          /\ tasks' = TasksAfterAppend(tasks, i, raised)
          /\ current_task_index' = IndexAfterAppend(current_task_index, i, raised)
          /\ total_lines' = IF raised THEN total_lines ELSE after_count
          /\ appended' = IF raised THEN appended ELSE Append(appended, i)
          /\ pc' = IF raised THEN "io_error" ELSE "save"
    /\ UNCHANGED <<sideVars, argVars, stateFile, docExists, i, iteration, content, feedback,
                   runs, resumedFrom, callHist, sectionHist>>

\* The append when nothing else touches the file.
AppendOk == AppendSection(WrittenNewlines(content))

\* The append when the file is cut short under it (another process, a
\* failing disk): fewer newlines than written are there at the re-read.
AppendDisturbed ==
    \E landed \in LandedChoices :
        landed < WrittenNewlines(content) /\ AppendSection(landed)

\* if state_file and (i % 5 == 0 or i == len(state.tasks) - 1)
ShouldSave(configured, k, n) == configured /\ (k % SaveEvery = 0 \/ k = n - 1)

\* "Save state periodically", then the loop goes to the next task
SaveStep ==
    /\ pc = "save"
    /\ stateFile' = IF ShouldSave(state_file, i, Len(tasks))
                    THEN <<Checkpoint(tasks, current_task_index, total_lines)>>
                    ELSE stateFile
    /\ i' = i + 1
    /\ pc' = LoopAt(i + 1, tasks)
    /\ UNCHANGED <<sideVars, argVars, memVars, docExists, doc, iteration, content, feedback,
                   runs, resumedFrom, callHist, appended, sectionHist, lastAppend>>

CleanUpKeep(configured, sf) == sf

\* if state_file and Path(state_file).exists(): Path(state_file).unlink()
CleanUp(configured, sf) == IF configured /\ sf # <<>> THEN <<>> ELSE sf

\* "Clean up state file", return output_file
Finish ==
    /\ pc = "cleanup"
    /\ stateFile' = CleanUp(state_file, stateFile)
    /\ pc' = "done"
    /\ UNCHANGED <<sideVars, argVars, memVars, docExists, doc, i, iteration, content, feedback,
                   runs, resumedFrom, callHist, appended, sectionHist, lastAppend>>

\* KeyboardInterrupt raised between two tasks of the run: generate_document
\* has no handler, the exception leaves it.
Interrupt ==
    /\ pc = "gen"
    /\ appended # <<>>
    /\ pc' = "interrupted"
    /\ UNCHANGED <<sideVars, argVars, memVars, diskVars, i, iteration, content, feedback,
                   runs, resumedFrom, callHist, appended, sectionHist, lastAppend>>

\* The process dies at any point of the run: memory is lost, the files stay.
Crash ==
    /\ pc \in Running
    /\ pc' = "crashed"
    /\ tasks' = <<>>
    /\ current_task_index' = 0
    /\ total_lines' = 0
    /\ i' = 0
    /\ iteration' = 0
    /\ content' = NoContent
    /\ feedback' = "pass"
    /\ UNCHANGED <<sideVars, argVars, diskVars, runs, resumedFrom, callHist, appended,
                   sectionHist, lastAppend>>

Next ==
    \/ StartFresh(MaxTasks, MaxRuns)
    \/ StartFails(MaxRuns)
    \/ StartResume(MaxRuns)
    \/ Generate(OneShape)
    \/ Review
    \/ Improve(OneShape)
    \/ ModelError
    \/ AppendOk
    \/ SaveStep
    \/ Finish
    \/ Interrupt
    \/ Crash

Spec == Init /\ [][Next]_vars

\* The steps generate_document takes by itself once it is running: the code
\* is sequential, so a step that can be taken is taken unless the process
\* is interrupted or dies. A model call counts as returning when it answers.
Progress ==
    \/ Generate(OneShape)
    \/ Review
    \/ Improve(OneShape)
    \/ AppendOk
    \/ SaveStep
    \/ Finish

\* The runs in which every model call returns and every step is taken.
SpecLive == Spec /\ WF_vars(Progress)

\* The same runs, shorter, with texts of every shape, on a file that can be
\* cut short under an append.
NextIO ==
    \/ StartFresh(MaxTasksIO, MaxRunsIO)
    \/ StartFails(MaxRunsIO)
    \/ StartResume(MaxRunsIO)
    \/ Generate(ContentShapes)
    \/ Review
    \/ Improve(ContentShapes)
    \/ ModelError
    \/ AppendOk
    \/ AppendDisturbed
    \/ SaveStep
    \/ Finish
    \/ Interrupt
    \/ Crash

SpecIO == Init /\ [][NextIO]_vars

\* ------------------------------------------------- reviewer responses
\* What a reviewer model response looks like to the parser: no {...} span,
\* a span that json.loads rejects, or a span that decodes to an object with
\* a "passed" entry (true, false or absent) and issue / suggestion lists,
\* kept by their lengths.
ReviewObjects ==
    {[passed |-> p, issues |-> n, suggestions |-> n] : p \in Feedbacks, n \in {0, 1}}

\* {"passed": True, "issues": [], "suggestions": []}
DefaultFeedback == [passed |-> "pass", issues |-> 0, suggestions |-> 0]

ReviewResponses ==
    {[kind |-> "nobrace", obj |-> DefaultFeedback],
     [kind |-> "undecodable", obj |-> DefaultFeedback]}
    \cup {[kind |-> "json", obj |-> o] : o \in ReviewObjects}

\* ReviewTool.review / review_with_preferences after the model call
ReviewToolReview(resp) ==
    IF resp.kind = "json" THEN resp.obj ELSE DefaultFeedback

\* ContentGenerator._parse_review_response
parse_review_response(resp) ==
    IF resp.kind = "json"
    THEN [passed |-> IF resp.obj.passed = "pass" THEN "pass" ELSE "fail",
          issues |-> resp.obj.issues, suggestions |-> resp.obj.suggestions]
    ELSE [passed |-> "fail", issues |-> 1, suggestions |-> 0]

\* One review of a section called directly, with the branch the loop takes
\* on its result: ReviewTool.review in DocumentOrchestrator.generate_document
\* and main(), review_section in ContentGenerator.generate_with_review.
ToolReview ==
    /\ tool = NoCall
    /\ \E impl \in {"ReviewTool", "ContentGenerator"}, resp \in ReviewResponses :
         LET fb == IF impl = "ReviewTool"
                   THEN ReviewToolReview(resp)
                   ELSE parse_review_response(resp)
             improves == IF impl = "ReviewTool"
                         THEN AfterReview(fb.passed) = "improve"
                         ELSE fb.passed # "pass"
         IN tool' = [op |-> "review", impl |-> impl, resp |-> resp, feedback |-> fb,
                     raised |-> FALSE, improver_called |-> improves]
    /\ UNCHANGED <<pipelineVars, cli>>

\* ImproveTool.improve called directly on a text, a feedback and the answer
\* the model would give.
ToolTexts == {[task |-> 0, ver |-> v, lines |-> sh[1], endsNl |-> sh[2]] :
                 v \in 0..1, sh \in ContentShapes}

ToolImprove ==
    /\ tool = NoCall
    /\ \E c \in ToolTexts, fb \in Feedbacks, sh \in ContentShapes :
         LET response == [task |-> 0, ver |-> c.ver + 1, lines |-> sh[1], endsNl |-> sh[2]]
         IN tool' = [op |-> "improve", content |-> c, feedback |-> fb,
                     response |-> response, result |-> improve(c, fb, response)]
    /\ UNCHANGED <<pipelineVars, cli>>

\* ---------------------------------------------------- outline responses
\* A model response is a sequence of tokens.  cls is what the regular
\* expressions of the extraction see: "open" = {, "close" = }, "fence" =
\* ```, "jfence" = ```json, "text" = anything else (white space is left
\* out).  role and obj are what json.loads sees: a brace is JSON syntax of
\* the object obj ("struct"), or a character inside a JSON string ("str"),
\* or part of the prose around the JSON ("prose").  Object 0 is the outline
\* object, object j > 0 its j-th section.
Tok(cls, role, obj) == [cls |-> cls, role |-> role, obj |-> obj]

ObjOpen(j) == Tok("open", "struct", j)
ObjClose(j) == Tok("close", "struct", j)
JsonText == Tok("text", "struct", -1)
StrText == Tok("text", "str", -1)
StrOpen == Tok("open", "str", -1)
StrClose == Tok("close", "str", -1)
StrFence == Tok("fence", "str", -1)
ProseText == Tok("text", "prose", -1)
ProseOpen == Tok("open", "prose", -1)
ProseClose == Tok("close", "prose", -1)
FenceJson == Tok("jfence", "prose", -1)
Fence == Tok("fence", "prose", -1)

\* The titles of a section: "Intro", "Use {x}", "x}```".
TitleKinds == {"plain", "braces", "fence"}

TitleTokens(kind) ==
    CASE kind = "plain" -> <<StrText>>
      [] kind = "braces" -> <<StrText, StrOpen, StrText, StrClose>>
      [] kind = "fence" -> <<StrText, StrClose, StrFence>>

\* An outline object J, by the titles of its sections in order.
Outlines == UNION {[1..n -> TitleKinds] : n \in 0..MaxSections}

\* json.dumps(J): {"sections": [{"title": ...}, ...]}
RECURSIVE SerializeSections(_, _)
SerializeSections(J, j) ==
    IF j > Len(J) THEN <<>>
    ELSE <<ObjOpen(j)>> \o TitleTokens(J[j]) \o <<ObjClose(j)>> \o SerializeSections(J, j + 1)

Serialize(J) == <<ObjOpen(0), JsonText>> \o SerializeSections(J, 1) \o <<ObjClose(0)>>

\* Prose before or after the JSON: none, "Here it is", "{the} outline".
Prose == {<<>>, <<ProseText>>, <<ProseOpen, ProseText, ProseClose>>}

\* J in a fenced json code block between prose
Wrap(J, lead, trail) == lead \o <<FenceJson>> \o Serialize(J) \o <<Fence>> \o trail

SetMin(S) == CHOOSE x \in S : \A y \in S : x <= y
SetMax(S) == CHOOSE x \in S : \A y \in S : x >= y

\* re.search(r"```json\s*\n?(\{.*?\})\s*```", ...).group(1) with starts =
\* {"jfence"}, re.search(r"``(\{.*?\})```", ...).group(1) with starts =
\* {"fence"}: the leftmost opening, then the shortest span that ends in a }
\* followed by ```; <<>> if there is no match.
FencedSpan(r, starts) ==
    LET ok(p, q) == /\ r[p].cls \in starts
                    /\ r[p + 1].cls = "open"
                    /\ r[q].cls = "close"
                    /\ r[q + 1].cls \in {"fence", "jfence"}
        ends(p) == {q \in (p + 2)..(Len(r) - 1) : ok(p, q)}
        ps == {p \in 1..(Len(r) - 3) : ends(p) # {}}
    IN IF ps = {} THEN <<>>
       ELSE SubSeq(r, SetMin(ps) + 1, SetMin(ends(SetMin(ps))))

\* re.search(r"\{.*\}", ..., re.DOTALL).group(0): first { to last }
GreedySpan(r) ==
    LET opens == {p \in 1..Len(r) : r[p].cls = "open"}
    IN IF opens = {} THEN <<>>
       ELSE LET p == SetMin(opens)
                closes == {q \in (p + 1)..Len(r) : r[q].cls = "close"}
            IN IF closes = {} THEN <<>> ELSE SubSeq(r, p, SetMax(closes))

\* Where r"[^{}]*(?:\{[^{}]*\}[^{}]*)*\}" ends when matched from position k
\* at brace depth d, 0 if it does not match.
RECURSIVE ShallowEnd(_, _, _)
ShallowEnd(r, k, d) ==
    IF k > Len(r) THEN 0
    ELSE IF r[k].cls = "open" THEN (IF d = 0 THEN ShallowEnd(r, k + 1, 1) ELSE 0)
    ELSE IF r[k].cls = "close" THEN (IF d = 0 THEN k ELSE ShallowEnd(r, k + 1, 0))
    ELSE ShallowEnd(r, k + 1, d)

\* re.search(r"\{[^{}]*(?:\{[^{}]*\}[^{}]*)*\}", ...).group(0)
ShallowSpan(r) ==
    LET ps == {p \in 1..Len(r) : r[p].cls = "open" /\ ShallowEnd(r, p + 1, 0) # 0}
    IN IF ps = {} THEN <<>>
       ELSE SubSeq(r, SetMin(ps), ShallowEnd(r, SetMin(ps) + 1, 0))

\* json.loads(json_str) succeeds: the text is one whole JSON object
Decodes(span) ==
    /\ Len(span) >= 2
    /\ span[1].cls = "open" /\ span[1].role = "struct"
    /\ span[Len(span)].cls = "close" /\ span[Len(span)].role = "struct"
    /\ span[Len(span)].obj = span[1].obj

\* BlockTask(title=section["title"], ...)
OutlineTask(title) == [title |-> title, completed |-> FALSE]

\* section["title"] of the section object that opens at position k
SectionTitle(span, k) ==
    LET e == SetMin({q \in (k + 1)..Len(span) : span[q] = ObjClose(span[k].obj)})
    IN [from |-> "json", n |-> span[k].obj, text |-> SubSeq(span, k + 1, e - 1)]

\* for section in data.get("sections", []): tasks.append(BlockTask(...))
RECURSIVE SectionsFrom(_, _)
SectionsFrom(span, k) ==
    IF k > Len(span) THEN <<>>
    ELSE IF span[k].cls = "open" /\ span[k].role = "struct" /\ span[k].obj > 0
         THEN <<OutlineTask(SectionTitle(span, k))>> \o SectionsFrom(span, k + 1)
         ELSE SectionsFrom(span, k + 1)

DecodedSections(span) == IF span[1].obj = 0 THEN SectionsFrom(span, 2) ELSE <<>>

\* What a strategy does: it raises, or returns a task list; and the number
\* of model requests it made.
Raises(n) == [raised |-> TRUE, tasks |-> <<>>, requests |-> n]
Returns(ts, n) == [raised |-> FALSE, tasks |-> ts, requests |-> n]

OutlineFromSpanLenient(span) ==
    IF span = <<>> \/ ~Decodes(span) THEN Returns(<<>>, 1) ELSE Returns(DecodedSections(span), 1)

\* raise ValueError(...) if nothing was extracted, json.loads raising
\* (create_todo_list) or caught and turned into ValueError
\* (create_llm_todo_list), else the tasks of data["sections"]
OutlineFromSpan(span) ==
    IF span = <<>> \/ ~Decodes(span) THEN Raises(1) ELSE Returns(DecodedSections(span), 1)

\* json_str of DocumentOrchestrator.create_todo_list: the fenced json block,
\* else first { to last }; replacing "\n" by " " changes no token
OrchestratorJsonStr(text) ==
    LET fenced == FencedSpan(text, {"jfence"})
    IN IF fenced # <<>> THEN fenced ELSE GreedySpan(text)

\* json_str of create_llm_todo_list: the two code-block patterns in order,
\* else the raw pattern
LlmJsonStr(text) ==
    LET fenced1 == FencedSpan(text, {"jfence"})
        fenced2 == FencedSpan(text, {"fence"})
    IN IF fenced1 # <<>> THEN fenced1
       ELSE IF fenced2 # <<>> THEN fenced2
       ELSE ShallowSpan(text)

\* DocumentOrchestrator.create_todo_list on the model's response
create_todo_list(resp) ==
    IF ~resp.ok THEN Raises(1) ELSE OutlineFromSpan(OrchestratorJsonStr(resp.text))

\* create_llm_todo_list on the model's response
create_llm_todo_list(resp) ==
    IF ~resp.ok THEN Raises(1) ELSE OutlineFromSpan(LlmJsonStr(resp.text))

OutlineStrategies == {"create_todo_list", "create_llm_todo_list"}

ModelOutline(fn, resp) ==
    IF fn = "create_todo_list" THEN create_todo_list(resp) ELSE create_llm_todo_list(resp)

JsonStrOf(fn, text) ==
    IF fn = "create_todo_list" THEN OrchestratorJsonStr(text) ELSE LlmJsonStr(text)

\* The responses of the outline model call: a transport error, prose
\* without JSON, a JSON object cut short, J alone, J fenced between prose.
Response(kind, J, text) == [ok |-> kind # "error", kind |-> kind, J |-> J, text |-> text]

OutlineResponses ==
    {Response("error", <<>>, <<>>)}
    \cup {Response("prose", <<>>, l) : l \in Prose}
    \cup {Response("cut", J, SubSeq(Serialize(J), 1, Len(Serialize(J)) - 1)) : J \in Outlines}
    \cup {Response("raw", J, Serialize(J)) : J \in Outlines}
    \cup {Response("fenced", J, Wrap(J, l, t)) : J \in Outlines, l \in Prose, t \in Prose}

PartsCountNoFloor(target_lines, num_parts) ==
    IF num_parts # <<>> THEN num_parts[1] ELSE IF target_lines \div 150 > 5 THEN target_lines \div 150 ELSE 5

\* num_sections of create_parts_todo_list; num_parts is <<>> for None
PartsCount(target_lines, num_parts) ==
    IF num_parts # <<>>
    THEN (IF num_parts[1] > 1 THEN num_parts[1] ELSE 1)
    ELSE (IF target_lines \div 150 > 5 THEN target_lines \div 150 ELSE 5)

\* create_parts_todo_list: "<topic> - Part <n>" for n = 1..num_sections
create_parts_todo_list(target_lines, num_parts) ==
    Returns([n \in 1..PartsCount(target_lines, num_parts) |->
                OutlineTask([from |-> "parts", n |-> n, text |-> <<>>])], 0)

\* create_custom_todo_list; file is <<>> when the path does not exist, else
\* <<text>>
create_custom_todo_list(file) ==
    IF file = <<>> THEN Raises(0)
    ELSE IF ~Decodes(file[1]) THEN Raises(0)
    ELSE Returns(DecodedSections(file[1]), 0)

\* The arguments of the numbered-parts strategy.
TargetLines == {0, 750, 900, MaxTargetLines}
NumParts == {<<>>} \cup {<<n>> : n \in -1..MaxParts}

\* The custom sections file: missing, not JSON, or an outline object.
CustomFiles == {<<>>, <<(<<ProseText>>)>>} \cup {<<Serialize(J)>> : J \in Outlines}

\* A model-generated strategy called directly on a response.
ToolOutline ==
    /\ tool = NoCall
    /\ \E fn \in OutlineStrategies, resp \in OutlineResponses :
         tool' = [op |-> "outline", fn |-> fn, resp |-> resp,
                  json_str |-> JsonStrOf(fn, resp.text),
                  result |-> ModelOutline(fn, resp)]
    /\ UNCHANGED <<pipelineVars, cli>>

\* A model-generated strategy called on J alone and on J fenced between prose.
ToolRoundTrip ==
    /\ tool = NoCall
    /\ \E fn \in OutlineStrategies, J \in Outlines, l \in Prose, t \in Prose :
         tool' = [op |-> "roundtrip", fn |-> fn, J |-> J, lead |-> l, trail |-> t,
                  raw |-> ModelOutline(fn, Response("raw", J, Serialize(J))),
                  fenced |-> ModelOutline(fn, Response("fenced", J, Wrap(J, l, t)))]
    /\ UNCHANGED <<pipelineVars, cli>>

ToolParts ==
    /\ tool = NoCall
    /\ \E tl \in TargetLines, np \in NumParts :
         tool' = [op |-> "parts", target_lines |-> tl, num_parts |-> np,
                  result |-> create_parts_todo_list(tl, np)]
    /\ UNCHANGED <<pipelineVars, cli>>

ToolCustom ==
    /\ tool = NoCall
    /\ \E f \in CustomFiles :
         tool' = [op |-> "custom", file |-> f, result |-> create_custom_todo_list(f)]
    /\ UNCHANGED <<pipelineVars, cli>>

\* ------------------------------------------------------ prompt builders
\* A context of n characters is the sequence 1..n: character k is the k-th
\* oldest.
ContextOf(n) == [k \in 1..n |-> k]

ContextLengths == {0, 1, SectionContextCap, SectionContextCap + 1,
                   BlockContextCap, BlockContextCap + 1, MaxContextChars}

PromptBuilders == {"build_generate_section_prompt",
                   "build_generate_section_prompt_with_preferences",
                   "_build_block_generation_prompt"}

\* text[-n:]
LastChars(text, n) == SubSeq(text, Len(text) - n + 1, Len(text))

\* text[:n]
FirstChars(text, n) == SubSeq(text, 1, n)

\* The context text a builder puts into the generation request.
InsertedContext(builder, context) ==
    CASE builder = "build_generate_section_prompt" ->
            IF Len(context) > SectionContextCap
            THEN LastChars(context, SectionContextCap) ELSE context
      [] builder = "build_generate_section_prompt_with_preferences" -> context
      [] builder = "_build_block_generation_prompt" ->
            IF Len(context) > BlockContextCap
            THEN FirstChars(context, BlockContextCap) ELSE context

\* A prompt builder called on a context.
ToolPrompt ==
    /\ tool = NoCall
    /\ \E b \in PromptBuilders, n \in ContextLengths :
         tool' = [op |-> "prompt", builder |-> b, context |-> ContextOf(n),
                  inserted |-> InsertedContext(b, ContextOf(n))]
    /\ UNCHANGED <<pipelineVars, cli>>

\* ------------------------------------------------- AppendTool on texts
\* A text, character by character: each character is a chunk of the file
\* holding one newline or none.
Ch == [nl |-> 0]
NL == [nl |-> 1]

Texts(n) == UNION {[1..k -> {Ch, NL}] : k \in 0..n}

\* content.endswith("\n")
EndsWithNewline(c) == c # <<>> /\ c[Len(c)] = NL

WrittenWithoutSpacer(c) == c \o (IF EndsWithNewline(c) THEN <<>> ELSE <<NL>>)

\* f.write(content); if not content.endswith("\n"): f.write("\n"); f.write("\n")
WrittenText(c) == c \o (IF EndsWithNewline(c) THEN <<>> ELSE <<NL>>) \o <<NL>>

OpenTruncate(file, written) == written

\* with open(self.output_file, "a") as f: the file after the writes
OpenAppend(file, written) == file \o written

\* AppendTool.append(content) on a file that nothing else touches: whether
\* it raises, the file after it, the value returned (-1 if none)
append(exists, file, c) ==
    IF ~exists
    THEN [raised |-> TRUE, exists |-> FALSE, file |-> file, returned |-> -1]
    ELSE LET before_count == SplitLen(file)
             after == OpenAppend(file, WrittenText(c))
             after_count == SplitLen(after)
             raised == AppendRaises(before_count, after_count, Newlines(c) + 1)
         IN [raised |-> raised, exists |-> TRUE, file |-> after,
             returned |-> IF raised THEN -1 ELSE after_count]

\* AppendTool.append called directly, with get_line_count read before and
\* after it.
ToolAppend ==
    /\ tool = NoCall
    /\ \E exists \in BOOLEAN, file \in Texts(MaxFileChars), c \in Texts(MaxTextChars) :
         /\ exists \/ file = <<>>
         /\ LET r == append(exists, file, c)
            IN tool' = [op |-> "append", exists |-> exists, file |-> file, content |-> c,
                        result |-> r,
                        count_before |-> get_line_count(exists, file),
                        count_after |-> get_line_count(r.exists, r.file)]
    /\ UNCHANGED <<pipelineVars, cli>>

\* ------------------------------------------------- checkpoint files
\* An entry of a JSON object: <<>> when the key is absent, <<v>> when it is
\* there with value v.  t.get(key, default)
Get(entry, default) == IF entry = <<>> THEN default ELSE entry[1]

\* The task objects of a state file, apart from the title: "completed" is one
\* of the keys read with t[...], the other four are read with t.get(...).
SavedTaskShapes ==
    [completed : {<<>>, <<TRUE>>},
     summary : {<<>>, <<"s">>},
     require_mermaid : {<<>>, <<TRUE>>},
     require_table : {<<>>, <<TRUE>>},
     require_examples : {<<>>, <<FALSE>>}]

\* data["tasks"]: the task at position j has title j - 1
SavedTaskLists == UNION {[1..n -> SavedTaskShapes] : n \in 0..MaxLoadTasks}

load_tasksStrict(dicts) ==
    IF \E j \in DOMAIN dicts :
          \/ dicts[j].completed = <<>> \/ dicts[j].summary = <<>>
          \/ dicts[j].require_mermaid = <<>> \/ dicts[j].require_table = <<>>
          \/ dicts[j].require_examples = <<>>
    THEN [raised |-> TRUE, tasks |-> <<>>]
    ELSE [raised |-> FALSE,
          tasks |-> [j \in DOMAIN dicts |->
                       [title |-> j - 1,
                        completed |-> dicts[j].completed[1],
                        summary |-> dicts[j].summary[1],
                        require_mermaid |-> dicts[j].require_mermaid[1],
                        require_table |-> dicts[j].require_table[1],
                        require_examples |-> dicts[j].require_examples[1]]]]

\* OrchestrationState.load: "for t in data["tasks"]: state.tasks.append(...)"
\* t["completed"] raises KeyError when the key is absent
load_tasks(dicts) ==
    IF \E j \in DOMAIN dicts : dicts[j].completed = <<>>
    THEN [raised |-> TRUE, tasks |-> <<>>]
    ELSE [raised |-> FALSE,
          tasks |-> [j \in DOMAIN dicts |->
                       [title |-> j - 1,
                        completed |-> dicts[j].completed[1],
                        summary |-> Get(dicts[j].summary, ""),
                        require_mermaid |-> Get(dicts[j].require_mermaid, FALSE),
                        require_table |-> Get(dicts[j].require_table, FALSE),
                        require_examples |-> Get(dicts[j].require_examples, TRUE)]]]

\* OrchestrationState.load called on a state file.
ToolLoad ==
    /\ tool = NoCall
    /\ \E dicts \in SavedTaskLists :
         tool' = [op |-> "load", dicts |-> dicts, result |-> load_tasks(dicts)]
    /\ UNCHANGED <<pipelineVars, cli>>

\* ------------------------------------------------- review checklists
\* The items of a review checklist, by what they ask for.
ReviewPromptBuilders == {"build_review_prompt", "build_review_prompt_with_preferences"}

AudienceLevels == {"beginner", "intermediate", "advanced"}

\* ContentPreferences, the fields the checklist depends on
Preferences ==
    [audience_level : AudienceLevels, include_analogies : BOOLEAN, include_code : BOOLEAN,
     include_diagrams : BOOLEAN, include_tables : BOOLEAN]

\* The requirement flags of a task.
TaskFlags == [require_mermaid : BOOLEAN, require_table : BOOLEAN, require_examples : BOOLEAN]

\* build_review_prompt(content, title): the twenty fixed items; 8 asks for
\* diagrams, 9 and 10 for code examples, 17 for a mermaid diagram or a table
FixedChecklist ==
    <<"zero_knowledge", "analogies", "mental_models", "jargon", "formal_terms", "bridge",
      "walkthroughs", "diagram", "code", "examples", "parameters", "what_if", "performance",
      "applications", "variations", "interview", "diagram_or_table", "length",
      "progressive", "no_headers">>

\* build_review_prompt_with_preferences: the checklist in the order built
PreferencesChecklist(p) ==
    (IF p.audience_level = "beginner"
     THEN <<"zero_knowledge", "mental_models">>
              \o (IF p.include_analogies THEN <<"analogies">> ELSE <<>>)
     ELSE IF p.audience_level = "intermediate"
     THEN <<"bridge", "depth">>
     ELSE <<"prior_knowledge", "depth">>)
    \o (IF p.include_code THEN <<"code", "examples">> ELSE <<>>)
    \o (IF p.include_diagrams THEN <<"diagram">> ELSE <<>>)
    \o (IF p.include_tables THEN <<"table">> ELSE <<>>)
    \o <<"length", "progressive", "no_headers">>

\* The checklist in the prompt a builder returns; the first takes neither
\* the task's flags nor preferences.
ReviewChecklist(builder, flags, p) ==
    IF builder = "build_review_prompt" THEN FixedChecklist ELSE PreferencesChecklist(p)

\* A review prompt built for a section.
ToolReviewPrompt ==
    /\ tool = NoCall
    /\ \E b \in ReviewPromptBuilders, flags \in TaskFlags, p \in Preferences :
         tool' = [op |-> "review_prompt", builder |-> b, flags |-> flags, preferences |-> p,
                  checklist |-> ReviewChecklist(b, flags, p)]
    /\ UNCHANGED <<pipelineVars, cli>>

\* ------------------------------------------------- mermaid conversion
\* A section is a sequence of items: prose, or a ```mermaid block with the
\* given text; a converted block becomes an image reference naming the
\* index of the block it was made for.
TextItem == [kind |-> "text", id |-> 0]

MermaidItem(c) == [kind |-> "mermaid", id |-> c]

ImageRef(index) == [kind |-> "image", id |-> index]

MermaidTexts == {1, 2}

SectionItems == {TextItem} \cup {MermaidItem(c) : c \in MermaidTexts}

SectionContents == UNION {[1..n -> SectionItems] : n \in 0..MaxBlocks}

\* What the tools do to one block: mmdc fails on the first `fails` attempts,
\* and the model call of fix number `fixRaisesAt` raises (0: none does).
BlockOutcomes == [fails : 0..(MermaidRetries + 1), fixRaisesAt : 0..MermaidRetries]

\* extract_mermaid_blocks: the blocks in order, numbered from 1
RECURSIVE extract_mermaid_blocks(_)
extract_mermaid_blocks(items) ==
    IF items = <<>> THEN <<>>
    ELSE LET rest == extract_mermaid_blocks(SubSeq(items, 1, Len(items) - 1))
             last == items[Len(items)]
         IN IF last.kind = "mermaid"
            THEN Append(rest, [index |-> Len(rest) + 1, full_match |-> last])
            ELSE rest

\* convert_mermaid_with_retry from attempt `attempt` on: fix_mermaid_with_llm
\* calls llm.complete with no handler around it
RECURSIVE convert_mermaid_with_retry(_, _)
convert_mermaid_with_retry(o, attempt) ==
    IF attempt > MermaidRetries THEN [raised |-> FALSE, success |-> FALSE]
    ELSE IF attempt >= o.fails THEN [raised |-> FALSE, success |-> TRUE]
    ELSE IF attempt < MermaidRetries /\ o.fixRaisesAt = attempt + 1
    THEN [raised |-> TRUE, success |-> FALSE]
    ELSE convert_mermaid_with_retry(o, attempt + 1)

\* str.replace(block.full_match, image_ref): every occurrence
ReplaceMatch(items, full_match, ref) ==
    [k \in DOMAIN items |-> IF items[k] = full_match THEN ref ELSE items[k]]

\* verify_and_convert_mermaid from block b on, with the content so far
RECURSIVE convert_blocks(_, _, _, _)
convert_blocks(blocks, outcomes, b, updated) ==
    IF b > Len(blocks) THEN [raised |-> FALSE, content |-> updated]
    ELSE LET r == convert_mermaid_with_retry(outcomes[b], 0)
         IN IF r.raised THEN [raised |-> TRUE, content |-> <<>>]
            ELSE convert_blocks(blocks, outcomes, b + 1,
                     IF r.success
                     THEN ReplaceMatch(updated, blocks[b].full_match, ImageRef(blocks[b].index))
                     ELSE updated)

verify_and_convert_mermaid(items, outcomes) ==
    convert_blocks(extract_mermaid_blocks(items), outcomes, 1, items)

\* One section sent through the diagram conversion.
ToolMermaid ==
    /\ tool = NoCall
    /\ \E items \in SectionContents :
         \E outcomes \in [1..Len(extract_mermaid_blocks(items)) -> BlockOutcomes] :
             tool' = [op |-> "mermaid", content |-> items, outcomes |-> outcomes,
                      result |-> verify_and_convert_mermaid(items, outcomes)]
    /\ UNCHANGED <<pipelineVars, cli>>

\* ------------------------------------------------- Editor.apply_edit
\* Buffers and edit texts are sequences of characters.
EditChars == {"a", "b"}

Buffers == UNION {[1..n -> EditChars] : n \in 0..MaxBufferChars}

EditTexts == UNION {[1..n -> EditChars] : n \in 0..(MaxBufferChars - 1)}

\* EditOperation(old_text, new_text, replace_all)
EditOperations == [old_text : EditTexts, new_text : EditTexts, replace_all : BOOLEAN]

\* old occurs in s at position k
OccursAt(s, old, k) ==
    /\ k + Len(old) - 1 <= Len(s)
    /\ SubSeq(s, k, k + Len(old) - 1) = old

\* str.count: the occurrences met scanning from position k on, each scan
\* resuming after the occurrence found; the empty text is counted between
\* all characters and at both ends
RECURSIVE str_count(_, _, _)
str_count(s, old, k) ==
    IF old = <<>> THEN Len(s) + 1
    ELSE IF k + Len(old) - 1 > Len(s) THEN 0
    ELSE IF OccursAt(s, old, k) THEN 1 + str_count(s, old, k + Len(old))
    ELSE str_count(s, old, k + 1)

\* str.replace(old, new, max) from position k on; max < 0 replaces all
RECURSIVE str_replace(_, _, _, _, _)
str_replace(s, old, new, max, k) ==
    IF max = 0 \/ k > Len(s) + 1 THEN SubSeq(s, k, Len(s))
    ELSE IF old = <<>>
    THEN new \o (IF k > Len(s) THEN <<>>
                 ELSE <<s[k]>> \o str_replace(s, old, new, max - 1, k + 1))
    ELSE IF k > Len(s) THEN <<>>
    ELSE IF OccursAt(s, old, k)
    THEN new \o str_replace(s, old, new, max - 1, k + Len(old))
    ELSE <<s[k]>> \o str_replace(s, old, new, max, k + 1)

\* Editor.apply_edit: whether EditError is raised, and _content afterwards
apply_edit(buffer, edit) ==
    IF edit.old_text = edit.new_text THEN [raised |-> FALSE, content |-> buffer]
    ELSE IF edit.replace_all
    THEN IF str_count(buffer, edit.old_text, 1) = 0
         THEN [raised |-> TRUE, content |-> buffer]
         ELSE [raised |-> FALSE,
               content |-> str_replace(buffer, edit.old_text, edit.new_text, -1, 1)]
    ELSE LET count == str_count(buffer, edit.old_text, 1)
         IN IF count = 0 \/ count > 1
            THEN [raised |-> TRUE, content |-> buffer]
            ELSE [raised |-> FALSE,
                  content |-> str_replace(buffer, edit.old_text, edit.new_text, 1, 1)]

\* One edit applied to a buffer.
ToolEdit ==
    /\ tool = NoCall
    /\ \E buffer \in Buffers, edit \in EditOperations :
         tool' = [op |-> "edit", content |-> buffer, edit |-> edit,
                  result |-> apply_edit(buffer, edit)]
    /\ UNCHANGED <<pipelineVars, cli>>

\* ------------------------------------------------- resume and output file
\* The output files a run can name, each holding the sections appended to it.
OutputFiles == {"recorded.md", "other.md"}

\* The sections with indices from..(to - 1), in order.
SectionRange(from, to) == [j \in 1..(to - from) |-> from + j - 1]

\* AppendTool(output_file): the file the run appends to, given the
\* output_file of the loaded state and the output_file argument
AppendTarget(state_output_file, output_file) == output_file

\* generate_document(topic, output_file, state_file=...) with a state file
\* that records n tasks, k of them completed into the recorded output file,
\* when every call succeeds: the files before and after the resumed run.
ToolResume ==
    /\ tool = NoCall
    /\ \E recorded \in OutputFiles, argument \in OutputFiles, n \in 1..MaxLoadTasks :
         \E k \in 0..n :
             LET before == [f \in OutputFiles |->
                               IF f = recorded THEN SectionRange(0, k) ELSE <<>>]
                 target == AppendTarget(recorded, argument)
             IN tool' = [op |-> "resume", recorded |-> recorded, argument |-> argument,
                         index |-> k, n |-> n, before |-> before,
                         after |-> [before EXCEPT ![target] = @ \o SectionRange(k, n)]]
    /\ UNCHANGED <<pipelineVars, cli>>

\* ------------------------------------------------- block generator loop
\* BlockContentGenerator.review_block after the model call: the decoded
\* object as it is, the default when nothing decodes
review_block(resp) == IF resp.kind = "json" THEN resp.obj ELSE DefaultFeedback

\* if feedback.get("passed", False): break
BlockLoopPassed(fb) == fb.passed = "pass"

\* BlockContentGenerator.improve_block: if feedback.get("passed", True):
\* return content; the content is kept by its version
improve_block(ver, fb) ==
    IF fb.passed # "fail"
    THEN [ver |-> ver, requests |-> 0]
    ELSE [ver |-> ver + 1, requests |-> 1]

\* for iteration in range(max_iterations) of process_node from iteration k
\* on: what each iteration reviewed, decided and asked of the improver
RECURSIVE block_review_loop(_, _, _, _)
block_review_loop(resps, k, maxit, ver) ==
    IF k >= maxit THEN <<>>
    ELSE LET fb == review_block(resps[k + 1])
         IN IF BlockLoopPassed(fb)
            THEN <<[feedback |-> fb, failed |-> FALSE, requests |-> 0, ver |-> ver]>>
            ELSE LET r == improve_block(ver, fb)
                 IN <<[feedback |-> fb, failed |-> TRUE, requests |-> r.requests,
                       ver |-> r.ver]>>
                        \o block_review_loop(resps, k + 1, maxit, r.ver)

\* The review loop of one block, on the reviewer's responses.
ToolBlockLoop ==
    /\ tool = NoCall
    /\ \E maxit \in 0..MaxIter :
         \E resps \in [1..maxit -> ReviewResponses] :
             tool' = [op |-> "block_loop", max_iterations |-> maxit, resps |-> resps,
                      iterations |-> block_review_loop(resps, 0, maxit, 0)]
    /\ UNCHANGED <<pipelineVars, cli>>

\* ------------------------------------------------- generate_with_review
\* The while loop of one block from iteration k on, with the version of
\* the block's content: the entries it adds to improved_blocks.
RECURSIVE review_rounds(_, _, _, _, _)
review_rounds(block, verdicts, k, maxit, ver) ==
    IF ~(k < maxit) THEN <<>>
    ELSE IF verdicts[k + 1] THEN <<[block |-> block, ver |-> ver]>>
    ELSE (IF k + 1 >= maxit THEN <<[block |-> block, ver |-> ver + 1]>> ELSE <<>>)
             \o review_rounds(block, verdicts, k + 1, maxit, ver + 1)

\* for i, block in enumerate(blocks, 1) from block b on: improved_blocks
RECURSIVE review_blocks(_, _, _, _)
review_blocks(n, verdicts, b, maxit) ==
    IF b > n THEN <<>>
    ELSE review_rounds(b, verdicts[b], 0, maxit, 0) \o review_blocks(n, verdicts, b + 1, maxit)

\* Step 3 of ContentGenerator.generate_with_review on n blocks, with the
\* verdict the reviewer gives in each iteration of each block.
ToolReviewBlocks ==
    /\ tool = NoCall
    /\ \E n \in 0..MaxBlocks, maxit \in 0..MaxIter :
         \E verdicts \in [1..n -> [1..maxit -> BOOLEAN]] :
             tool' = [op |-> "review_blocks", n |-> n, max_iterations |-> maxit,
                      verdicts |-> verdicts,
                      improved_blocks |-> review_blocks(n, verdicts, 1, maxit)]
    /\ UNCHANGED <<pipelineVars, cli>>

\* The tools and outline strategies called directly on bounded inputs, one
\* call in a behaviour: none of them keeps state between calls.
NextTools ==
    \/ ToolReview
    \/ ToolImprove
    \/ ToolOutline
    \/ ToolRoundTrip
    \/ ToolParts
    \/ ToolCustom
    \/ ToolPrompt
    \/ ToolAppend
    \/ ToolLoad
    \/ ToolReviewPrompt
    \/ ToolMermaid
    \/ ToolEdit
    \/ ToolResume
    \/ ToolBlockLoop
    \/ ToolReviewBlocks

SpecTools == Init /\ [][NextTools]_vars

\* ------------------------------------------------------ command line
\* main() of the command line (cli/generate.py): the outline by mode, the
\* confirmation, the header, the section loop.

\* The model's responses to the outline request seen by main.
CliResponses == {r \in OutlineResponses : r.kind # "fenced"}
                   \cup {Response("fenced", J, Wrap(J, <<ProseText>>, <<>>)) : J \in Outlines}

NoResponse == Response("none", <<>>, <<>>)

\* The arguments and the environment of a run: gen_mode, what the model
\* answers to the outline request, target_lines, num_parts, the custom
\* sections file, and whether the output document exists already.
CliInputs ==
    {[mode |-> "llm", resp |-> r, target_lines |-> 0, num_parts |-> <<>>, file |-> <<>>, before |-> b] :
        r \in CliResponses, b \in {"absent", "old"}}
    \cup {[mode |-> "parts", resp |-> NoResponse, target_lines |-> tl, num_parts |-> np, file |-> <<>>, before |-> b] :
        tl \in TargetLines, np \in NumParts, b \in {"absent", "old"}}
    \cup {[mode |-> "custom", resp |-> NoResponse, target_lines |-> 0, num_parts |-> <<>>, file |-> f, before |-> b] :
        f \in CustomFiles, b \in {"absent", "old"}}
    \cup {[mode |-> "auto", resp |-> r, target_lines |-> tl, num_parts |-> np, file |-> <<>>, before |-> b] :
        r \in CliResponses, tl \in {750, MaxTargetLines}, np \in {<<>>, <<0>>}, b \in {"absent", "old"}}

OutlineOf(failed, fellBack, ts, requests) ==
    [failed |-> failed, fellBack |-> fellBack, tasks |-> ts, outline_requests |-> requests]

OutlineForModeCustomFallsBack(in) ==
    LET llm == create_llm_todo_list(in.resp)
        parts == create_parts_todo_list(in.target_lines, in.num_parts)
        custom == create_custom_todo_list(in.file)
    IN CASE in.mode = "llm" -> OutlineOf(llm.raised, FALSE, llm.tasks, 1)
         [] in.mode = "parts" -> OutlineOf(FALSE, FALSE, parts.tasks, 0)
         [] in.mode = "custom" ->
              IF custom.raised THEN OutlineOf(FALSE, TRUE, parts.tasks, 0)
              ELSE OutlineOf(FALSE, FALSE, custom.tasks, 0)
         [] in.mode = "auto" ->
              IF llm.raised THEN OutlineOf(FALSE, TRUE, parts.tasks, 1)
              ELSE OutlineOf(FALSE, FALSE, llm.tasks, 1)

\* "Create todo list based on mode": failed = the branch returned 1
OutlineForMode(in) ==
    LET llm == create_llm_todo_list(in.resp)
        parts == create_parts_todo_list(in.target_lines, in.num_parts)
        custom == create_custom_todo_list(in.file)
    IN CASE in.mode = "llm" -> OutlineOf(llm.raised, FALSE, llm.tasks, 1)
         [] in.mode = "parts" -> OutlineOf(FALSE, FALSE, parts.tasks, 0)
         [] in.mode = "custom" -> OutlineOf(custom.raised, FALSE, custom.tasks, 0)
         [] in.mode = "auto" ->
              IF llm.raised THEN OutlineOf(FALSE, TRUE, parts.tasks, 1)
              ELSE OutlineOf(FALSE, FALSE, llm.tasks, 1)

\* The local variable context of main: the tasks whose summary entries it
\* holds, in order, and the task whose content tail it ends with, with the
\* number of characters of that tail.  context = ""
NoContext == [summaries |-> <<>>, tail_of |-> -1, tail |-> 0]

\* How the summary call of a section ends: a text, an empty answer, an
\* exception.
SummaryOutcomes == {"text", "empty", "raises"}

\* task.summary after the try block around generate_summary
SummaryAfter(so) == IF so = "text" THEN "text" ELSE ""

AfterSummaryFatal(so) == IF so = "raises" THEN "exit" ELSE "continue"

\* except Exception: warning, task.summary = "": the loop goes on
AfterSummary(so) == "continue"

\* The tasks j in lo..hi that have a summary: "if tasks[j].summary"
RECURSIVE SummarizedIn(_, _, _)
SummarizedIn(sums, lo, hi) ==
    IF lo > hi THEN <<>>
    ELSE (IF sums[lo + 1] # "" THEN <<lo>> ELSE <<>>) \o SummarizedIn(sums, lo + 1, hi)

\* The lengths of the final content of a section, in characters.
ContentChars == {1, RecentChars + 1}

EnhancedContextAll(sums, k, n) ==
    [summaries |-> SummarizedIn(sums, 0, k), tail_of |-> k,
     tail |-> IF n > RecentChars THEN RecentChars ELSE n]

\* "Build enhanced context for next section" after task k with final
\* content of n characters: start_idx = max(0, k + 1 - num_summaries)
EnhancedContext(sums, k, n) ==
    [summaries |-> SummarizedIn(sums, IF k + 1 - NumSummaries > 0 THEN k + 1 - NumSummaries ELSE 0, k),
     tail_of |-> k,
     tail |-> IF n > RecentChars THEN RecentChars ELSE n]

\* return <status>: the run is over
CliExit(c, status, reason) == [c EXCEPT !.pc = "exit", !.status = status, !.reason = reason]

\* main up to "if not tasks": the outline is made, or the run returns 1.
\* Nothing before this point touches the output document.
CliOutline(inputs) ==
    /\ cli.pc = "start"
    /\ \E in \in inputs :
         LET o == OutlineForMode(in)
             c == [pc |-> "confirm", in |-> in, output |-> in.before, sections |-> 0,
                   fellBack |-> o.fellBack, outline_requests |-> o.outline_requests,
                   tasks |-> IF o.failed THEN <<>> ELSE o.tasks,
                   i |-> 0, generate_calls |-> 0, status |-> -1, reason |-> "",
                   context |-> NoContext, given |-> <<>>, summaries |-> <<>>,
                   contents |-> <<>>, summary_failed |-> <<>>]
         IN cli' = IF o.failed THEN CliExit(c, 1, "outline_failed")
                   ELSE IF Len(o.tasks) = 0 THEN CliExit(c, 1, "no_tasks")
                   ELSE c
    /\ UNCHANGED <<pipelineVars, tool>>

\* The user's answers to "Proceed with this outline?", and what outline.json
\* holds after editing: not JSON, or an outline.
Answers == {"y", "n", "eof", "edit"}
Edits == {<<(<<ProseText>>)>>} \cup {<<Serialize([k \in 1..n |-> "plain"])>> : n \in 0..MaxSections}

\* Path(output).write_text(header)
CliHeader(c) == [c EXCEPT !.pc = "sections", !.output = "written", !.sections = 0]

\* The outline preview and confirmation, then the header.
CliConfirm ==
    /\ cli.pc = "confirm"
    /\ \/ \E answer \in Answers \ {"edit"} :
            cli' = IF answer = "y" THEN CliHeader(cli) ELSE CliExit(cli, 0, "cancelled")
       \/ \E e \in Edits, confirm \in {"y", "n"} :
            cli' = IF ~Decodes(e[1]) THEN CliHeader(cli)
                   ELSE IF confirm = "n" THEN CliExit([cli EXCEPT !.tasks = DecodedSections(e[1])], 0, "cancelled")
                   ELSE CliHeader([cli EXCEPT !.tasks = DecodedSections(e[1])])
    /\ UNCHANGED <<pipelineVars, tool>>

\* One round of the section loop: generated with the context, reviewed,
\* summarized and appended, the context of the next section built; or an
\* exception or an interrupt ends the run.
CliSection(summaryOutcomes, chars) ==
    /\ cli.pc = "sections"
    /\ cli.i < Len(cli.tasks)
    /\ \E outcome \in {"ok", "error", "interrupt"}, so \in summaryOutcomes, n \in chars :
         LET called == [cli EXCEPT !.generate_calls = @ + 1,
                                   !.given = Append(@, cli.context)]
             summarized == [called EXCEPT !.summaries = Append(@, SummaryAfter(so)),
                                          !.summary_failed = Append(@, so = "raises")]
         IN cli' = CASE outcome = "ok" /\ AfterSummary(so) = "continue" ->
                          [summarized EXCEPT !.sections = @ + 1,
                                             !.tasks[cli.i + 1].completed = TRUE,
                                             !.contents = Append(@, n),
                                             !.context = EnhancedContext(summarized.summaries, cli.i, n),
                                             !.i = @ + 1]
                     [] outcome = "ok" /\ AfterSummary(so) # "continue" ->
                          CliExit(summarized, 1, "error")
                     [] outcome = "error" -> CliExit(called, 1, "error")
                     [] outcome = "interrupt" -> CliExit(called, 130, "interrupted")
    /\ UNCHANGED <<pipelineVars, tool>>

\* After the last section: return 0
CliFinish ==
    /\ cli.pc = "sections"
    /\ cli.i = Len(cli.tasks)
    /\ cli' = CliExit(cli, 0, "complete")
    /\ UNCHANGED <<pipelineVars, tool>>

NextCLI ==
    \/ CliOutline(CliInputs)
    \/ CliConfirm
    \/ CliSection({"text"}, {1})
    \/ CliFinish

\* The command line, from its arguments to its exit status.
SpecCLI == Init /\ [][NextCLI]_vars

\* Runs of the numbered-parts mode with every outcome of the summary call
\* and every content length.
SectionInputs ==
    {[mode |-> "parts", resp |-> NoResponse, target_lines |-> 0, num_parts |-> <<n>>,
      file |-> <<>>, before |-> "absent"] : n \in 1..MaxSectionTasks}

NextSections ==
    \/ CliOutline(SectionInputs)
    \/ CliConfirm
    \/ CliSection(SummaryOutcomes, ContentChars)
    \/ CliFinish

\* The section loop of the command line with its summaries and contexts.
SpecSections == Init /\ [][NextSections]_vars

\* ------------------------------------------------------------ properties
\* The state object of the run is in memory.
InMemory == pc \notin {"idle", "crashed"}

\* Tasks appended so far according to the run: those the checkpoint it
\* resumed from counted, and those it appended itself.
AppendedSoFar == (IF resumedFrom >= 0 THEN resumedFrom ELSE 0) + Len(appended)

\* Number of sections of task j in the output file.
SectionsOf(j) == Cardinality({p \in DOMAIN doc : doc[p].task = j})

\* C1: a run that resumed from a checkpoint with current_task_index = k
\* issues no model call and appends nothing for the tasks below k, and when
\* it completes it has appended exactly len(tasks) - k sections.
ResumeSkipsFinished ==
    resumedFrom >= 0 =>
        /\ lowCall = -1 \/ lowCall >= resumedFrom
        /\ \A p \in DOMAIN appended : appended[p] >= resumedFrom
        /\ pc = "done" => Len(appended) = Len(tasks) - resumedFrom

ResumeSkipsFinishedWitness ==
    /\ pc = "done"
    /\ resumedFrom >= 1
    /\ Len(appended) >= 2
    /\ lowCall = resumedFrom

\* C2: when a run completes, whatever runs were aborted before it, every
\* task has exactly one section in the output document.
ExactlyOnceAppend ==
    pc = "done" => \A j \in 0..(Len(tasks) - 1) : SectionsOf(j) = 1

\* C3: with a state file configured, whenever a task has been appended and
\* the next generation call is about to begin, the checkpoint on disk
\* records as many tasks as have been appended.
CheckpointAfterEveryTask ==
    (state_file /\ pc = "gen" /\ appended # <<>>) =>
        /\ stateFile # <<>>
        /\ stateFile[1].current_task_index = AppendedSoFar

\* C4: in memory and in every checkpoint on disk, the cursor is within
\* 0..len(tasks) and every task below it is completed.
CursorOk(cti, ts) ==
    /\ 0 <= cti
    /\ cti <= Len(ts)
    /\ \A j \in 1..cti : ts[j].completed

CursorInvariant ==
    /\ InMemory => CursorOk(current_task_index, tasks)
    /\ stateFile # <<>> => CursorOk(stateFile[1].current_task_index, stateFile[1].tasks)

CursorInvariantWitness ==
    /\ pc = "gen"
    /\ current_task_index >= 2
    /\ stateFile # <<>>
    /\ stateFile[1].current_task_index >= 1

\* C5: an append whose observed growth in lines is less than half of the
\* expected growth (the content's line count + 2) raises.
AppendRaisesOnUnderGrowth ==
    (lastAppend.task # -1
       /\ 2 * (lastAppend.after - lastAppend.before) < lastAppend.content_lines + 2)
    => lastAppend.raised

\* C6: when append raises, the task is not completed, the cursor is not
\* advanced, no checkpoint records the task as done, and the run has made
\* no call for a later task.
DurabilityErrorStopsRun ==
    pc = "io_error" =>
        /\ lastAppend.raised
        /\ ~tasks[i + 1].completed
        /\ current_task_index = i
        /\ i \notin {appended[p] : p \in DOMAIN appended}
        /\ stateFile # <<>> =>
              /\ stateFile[1].current_task_index <= i
              /\ ~stateFile[1].tasks[i + 1].completed
        /\ highCall = i

DurabilityErrorWitness ==
    /\ pc = "io_error"
    /\ i = 1
    /\ stateFile # <<>>

\* C7: a KeyboardInterrupt between two tasks leaves, when a state file is
\* configured, a checkpoint whose cursor is the number of tasks appended.
InterruptCheckpointed ==
    (pc = "interrupted" /\ state_file) =>
        /\ stateFile # <<>>
        /\ stateFile[1].current_task_index = current_task_index

\* C8: a run that returns leaves no state file; the state file is removed
\* only by the clean-up of a run that returns; a run that ends by an
\* exception leaves the state file as it was.
StateFileLifecycle ==
    [][/\ pc' = "done" => stateFile' = <<>>
       /\ (stateFile # <<>> /\ stateFile' = <<>>) => (pc = "cleanup" /\ pc' = "done")
       /\ pc' \in {"error", "io_error"} => stateFile' = stateFile]_vars

StateFileLifecycleWitness ==
    /\ pc = "done"
    /\ state_file
    /\ resumedFrom >= 1
    /\ appended # <<>>

\* C9: the reviewer is called at most max_iterations times for a section,
\* and once that many reviews are made no further review is pending.
BoundedReviewLoop ==
    /\ nReviews <= max_iterations
    /\ pc = "review" => nReviews < max_iterations
    /\ nImproves <= nReviews

BoundedReviewLoopWitness ==
    /\ pc = "append"
    /\ max_iterations = MaxIter
    /\ nReviews = max_iterations
    /\ nImproves = max_iterations

Exhausted ==
    /\ max_iterations >= 1
    /\ nReviews = max_iterations
    /\ feedback = "fail"
    /\ pc \in {"review", "improve", "append", "save"}

BestEffortOnExhaustedBudget ==
    Exhausted =>
        /\ pc # "review"
        /\ pc = "improve" => nImproves = max_iterations - 1
        /\ pc = "append" => (content.task = i /\ content.ver = max_iterations)
        /\ pc = "save" =>
              /\ lastAppend.task = i
              /\ lastAppend.ver = max_iterations
              /\ doc[Len(doc)].task = i
              /\ tasks[i + 1].completed

BestEffortWitness ==
    /\ Exhausted
    /\ max_iterations = MaxIter
    /\ pc = "save"

\* C12: when a reviewer response cannot be parsed (no brace span, or a span
\* that does not decode), the review returns passed = true with no issues
\* and no suggestions, does not raise, and the improver is not called.
ReviewerFailsOpen ==
    (tool.op = "review" /\ tool.resp.kind \in {"nobrace", "undecodable"}) =>
        /\ ~tool.raised
        /\ tool.feedback = DefaultFeedback
        /\ ~tool.improver_called

\* C13 as stated: improve returns its input without a model request when
\* the feedback has passed = true, and otherwise makes exactly one request
\* and returns the response.
ImproverPassThroughStrict ==
    tool.op = "improve" =>
        IF tool.feedback = "pass"
        THEN tool.result = [content |-> tool.content, requests |-> 0]
        ELSE tool.result = [content |-> tool.response, requests |-> 1]

\* C13 amended: improve returns its input without a model request when the
\* feedback's passed entry is true or absent, and otherwise makes exactly one
\* request and returns the response.
ImproverPassThrough ==
    tool.op = "improve" =>
        IF tool.feedback \in {"pass", "nokey"}
        THEN tool.result = [content |-> tool.content, requests |-> 0]
        ELSE tool.result = [content |-> tool.response, requests |-> 1]

ImproverPassThroughWitness ==
    /\ tool.op = "improve"
    /\ tool.feedback = "nokey"
    /\ tool.result.requests = 0
    /\ tool.content.ver = 1

\* C14: an outline strategy called on any input raises or returns at least
\* one task.
OutlineNeverEmpty ==
    tool.op \in {"outline", "parts", "custom"} =>
        (tool.result.raised \/ Len(tool.result.tasks) >= 1)

\* C15: a run that finishes successfully has at least one section: with an
\* outline of zero sections it ends in an error, never in a header-only
\* document.
NoSilentEmptyDocument ==
    (pc = "done" /\ runs >= 1) => Len(tasks) >= 1

\* C16: in auto mode, when the model-generated strategy raises or returns no
\* sections, the numbered-parts list is used and the run is not ended for
\* lack of tasks.
AutoModeFallsBack ==
    (cli.pc # "start" /\ cli.in.mode = "auto") =>
        LET llm == create_llm_todo_list(cli.in.resp)
        IN (llm.raised \/ Len(llm.tasks) = 0) =>
              /\ cli.fellBack
              /\ cli.reason \notin {"no_tasks", "outline_failed"}
              /\ (cli.pc = "confirm" => Len(cli.tasks) >= 1)

OutlineRoundTrip ==
    tool.op = "roundtrip" => tool.fenced = tool.raw

\* C21: the context text inserted into a section-generation request is never
\* longer than the cap, and it is a suffix of the available context.
ContextCapKeepsSuffix ==
    tool.op = "prompt" =>
        LET n == Len(tool.inserted)
            m == Len(tool.context)
        IN /\ n <= BlockContextCap
           /\ n <= m
           /\ \A k \in 1..n : tool.inserted[k] = tool.context[m - n + k]

\* C22: the context given to the generation call of task t is empty for
\* t = 0; for t >= 1 it holds the summaries of exactly the tasks among the
\* last 3 before t that have a non-empty summary, in task order, followed
\* by the last at most 500 characters of the final content of task t - 1.
ContextComposition ==
    cli.pc # "start" =>
        \A k \in 1..Len(cli.given) :
            LET t == k - 1
                g == cli.given[k]
                window == {j \in 0..(t - 1) : j >= t - 3 /\ cli.summaries[j + 1] # ""}
            IN IF t = 0
               THEN g = [summaries |-> <<>>, tail_of |-> -1, tail |-> 0]
               ELSE /\ {g.summaries[p] : p \in 1..Len(g.summaries)} = window
                    /\ \A p \in 1..(Len(g.summaries) - 1) : g.summaries[p] < g.summaries[p + 1]
                    /\ g.tail_of = t - 1
                    /\ g.tail = (IF cli.contents[t] <= 500 THEN cli.contents[t] ELSE 500)

ContextCompositionWitness ==
    /\ cli.pc # "start"
    /\ Len(cli.given) = 5
    /\ \A j \in 1..4 : cli.summaries[j] # ""
    /\ cli.contents[4] = 501
    /\ cli.given[5].summaries = <<1, 2, 3>>
    /\ cli.given[5].tail = 500

\* C23: a section whose summary call raised has the empty summary, is
\* appended and completed, the loop goes on after it, and no later context
\* holds a summary entry of it.
SummaryFailureSwallowed ==
    cli.pc # "start" =>
        \A k \in 1..Len(cli.summary_failed) :
            cli.summary_failed[k] =>
                /\ cli.summaries[k] = ""
                /\ cli.tasks[k].completed
                /\ cli.sections >= k
                /\ cli.i >= k
                /\ cli.reason # "error" \/ cli.i > k \/ Len(cli.given) > k
                /\ \A q \in 1..Len(cli.given) :
                      \A p \in 1..Len(cli.given[q].summaries) : cli.given[q].summaries[p] # k - 1
                /\ \A p \in 1..Len(cli.context.summaries) : cli.context.summaries[p] # k - 1

SummaryFailureWitness ==
    /\ cli.pc # "start"
    /\ Len(cli.summary_failed) >= 2
    /\ cli.summary_failed[1]
    /\ cli.summaries[2] # ""
    /\ cli.sections >= 2
    /\ Len(cli.given) >= 3

\* The sections of the output file, in file order, followed up to position p.
SectionBefore(p, j) == \E q \in 1..(p - 1) : doc[q].task = j

\* C24: a run appends its sections in task order without a gap; a section
\* of task j is in the output file only after a section of every task
\* below j; and the task list in memory and in every checkpoint is in the
\* order of the outline.
StrictOutlineOrder ==
    /\ \A p \in 1..(Len(appended) - 1) : appended[p + 1] = appended[p] + 1
    /\ \A p \in DOMAIN doc : \A j \in 0..(doc[p].task - 1) : SectionBefore(p, j)
    /\ \A k \in DOMAIN tasks : tasks[k].title = k - 1
    /\ stateFile # <<>> => \A k \in DOMAIN stateFile[1].tasks : stateFile[1].tasks[k].title = k - 1

StrictOutlineOrderWitness ==
    /\ pc = "done"
    /\ resumedFrom >= 1
    /\ Len(tasks) >= 3
    /\ Len(appended) >= 2
    /\ doc[Len(doc)].task = Len(tasks) - 1

\* C25: a completed task has non-empty content, in memory during a run and
\* after a checkpoint is loaded.
CompletedHasContent ==
    \A k \in DOMAIN tasks : tasks[k].completed => tasks[k].content # NoContent

\* C30: a run starting with a state file present makes no outline call and
\* leaves the output file as it is; a run starting without one calls the
\* outline and, the outline made, writes the header; the output file never
\* holds a second header, nor a section before the header.
FreshOrResumeSingleHeader ==
    [][/\ runs' = runs + 1 =>
             IF state_file /\ stateFile # <<>>
             THEN ~outlineCalled' /\ doc' = doc /\ resumedFrom' >= 0
             ELSE /\ outlineCalled'
                  /\ pc' # "error" => doc' = <<[task |-> -1, nl |-> 6]>>
       /\ \A p \in DOMAIN doc' : (doc'[p].task = -1) <=> (p = 1)]_vars

FreshOrResumeWitness ==
    /\ runs >= 3
    /\ resumedFrom >= 1
    /\ ~outlineCalled
    /\ pc = "done"
    /\ Len(doc) >= 4

\* The newline characters of a text, counted one by one.
NewlineCount(text) == Cardinality({p \in DOMAIN text : text[p].nl = 1})

\* A text without its trailing newlines.
RECURSIVE StripNewlines(_)
StripNewlines(c) ==
    IF c # <<>> /\ c[Len(c)].nl = 1 THEN StripNewlines(SubSeq(c, 1, Len(c) - 1)) ELSE c

\* What an append added at the end of the file.
AddedText == SubSeq(tool.result.file, Len(tool.file) + 1, Len(tool.result.file))

\* C26: the file before an append is a prefix of the file after it.
AppendNeverTruncates ==
    tool.op = "append" =>
        /\ Len(tool.result.file) >= Len(tool.file)
        /\ SubSeq(tool.result.file, 1, Len(tool.file)) = tool.file
        /\ tool.exists => tool.result.exists

AppendNeverTruncatesWitness ==
    /\ tool.op = "append"
    /\ Len(tool.file) = 3
    /\ ~tool.result.raised
    /\ Len(tool.result.file) > 3

\* C27: the text an append adds is the content ending with exactly one
\* newline, followed by one blank line.
SeparatorShape ==
    (tool.op = "append" /\ tool.exists) =>
        AddedText = StripNewlines(tool.content) \o <<[nl |-> 1], [nl |-> 1]>>

\* C28: an append that nothing disturbs does not raise, and the line count
\* grows by at least half of the content's lines + 2.
UndisturbedGrowth ==
    (tool.op = "append" /\ tool.exists) =>
        /\ ~tool.result.raised
        /\ 2 * (tool.count_after - tool.count_before) >= (NewlineCount(tool.content) + 1) + 2

UndisturbedGrowthWitness ==
    /\ tool.op = "append"
    /\ tool.exists
    /\ tool.content = <<[nl |-> 1]>>
    /\ tool.count_after - tool.count_before = 2
    /\ ~tool.result.raised

\* C29: get_line_count is 0 for a missing file, else the number of lines the
\* newlines delimit; append returns the line count read right after it.
LineCountOfDocument ==
    tool.op = "append" =>
        /\ tool.count_before = (IF tool.exists THEN NewlineCount(tool.file) + 1 ELSE 0)
        /\ ~tool.result.raised =>
              /\ tool.result.returned = tool.count_after
              /\ tool.count_after = NewlineCount(tool.result.file) + 1

LineCountWitness ==
    /\ tool.op = "append"
    /\ tool.exists
    /\ tool.count_before = 2
    /\ tool.result.returned = 4

\* C31: loading a checkpoint whose tasks lack optional fields does not
\* raise; every absent optional field gets its default (summary empty,
\* diagram false, table false, examples true), every present field its
\* value, and the tasks keep their order.
LoadToleratesMissingOptional ==
    (tool.op = "load" /\ \A j \in DOMAIN tool.dicts : tool.dicts[j].completed # <<>>) =>
        /\ ~tool.result.raised
        /\ Len(tool.result.tasks) = Len(tool.dicts)
        /\ \A j \in DOMAIN tool.dicts :
              LET d == tool.dicts[j]
                  t == tool.result.tasks[j]
              IN /\ t.title = j - 1
                 /\ t.completed = d.completed[1]
                 /\ t.summary = (IF d.summary = <<>> THEN "" ELSE d.summary[1])
                 /\ t.require_mermaid = (d.require_mermaid # <<>> /\ d.require_mermaid[1])
                 /\ t.require_table = (d.require_table # <<>> /\ d.require_table[1])
                 /\ t.require_examples = (d.require_examples = <<>> \/ d.require_examples[1])

LoadToleratesWitness ==
    /\ tool.op = "load"
    /\ Len(tool.dicts) = 2
    /\ tool.dicts[1].summary = <<>>
    /\ tool.dicts[1].require_examples = <<>>
    /\ tool.dicts[2].require_examples = <<FALSE>>
    /\ ~tool.result.raised
    /\ tool.result.tasks[1].require_examples

\* The items of the checklist in the last review prompt.
ChecklistItems == {tool.checklist[k] : k \in DOMAIN tool.checklist}

\* C32: a diagram, table or code-example item is on the reviewer's checklist
\* only if the section requires that element: by the task's flags where the
\* review takes no preferences, by the preferences where it does.
ReviewerChecksOnlyRequired ==
    tool.op = "review_prompt" =>
        LET byFlags == tool.builder = "build_review_prompt"
            diagram == IF byFlags THEN tool.flags.require_mermaid ELSE tool.preferences.include_diagrams
            table == IF byFlags THEN tool.flags.require_table ELSE tool.preferences.include_tables
            code == IF byFlags THEN tool.flags.require_examples ELSE tool.preferences.include_code
        IN /\ "diagram" \in ChecklistItems => diagram
           /\ "table" \in ChecklistItems => table
           /\ "diagram_or_table" \in ChecklistItems => (diagram \/ table)
           /\ ("code" \in ChecklistItems \/ "examples" \in ChecklistItems) => code

\* The position in the content of the k-th mermaid block.
RECURSIVE BlockPosition(_, _)
BlockPosition(items, k) ==
    LET n == Len(extract_mermaid_blocks(items))
    IN IF items[Len(items)].kind = "mermaid" /\ n = k THEN Len(items)
       ELSE BlockPosition(SubSeq(items, 1, Len(items) - 1), k)

\* C33: the diagram conversion never raises, a block whose conversion fails
\* (a raising fix call included) stays in the returned markdown as it was,
\* and a converted block is replaced by its image reference.
MermaidNeverRaisesKeepsText ==
    tool.op = "mermaid" =>
        /\ ~tool.result.raised
        /\ Len(tool.result.content) = Len(tool.content)
        /\ \A b \in DOMAIN tool.outcomes :
             LET at == BlockPosition(tool.content, b)
                 converted == tool.outcomes[b].fails <= MermaidRetries
                                 /\ tool.outcomes[b].fixRaisesAt \notin 1..tool.outcomes[b].fails
             IN tool.result.content[at] =
                    IF converted THEN ImageRef(b) ELSE tool.content[at]
        /\ \A k \in DOMAIN tool.content :
             tool.content[k].kind = "text" => tool.result.content[k] = tool.content[k]
\* The positions of the buffer at which old_text occurs.
Occurrences(s, old) == {k \in 1..(Len(s) + 1) : OccursAt(s, old, k)}

\* The buffer with the occurrence of old at position k replaced by new.
ReplacedAt(s, old, new, k) ==
    SubSeq(s, 1, k - 1) \o new \o SubSeq(s, k + Len(old), Len(s))

\* C34: a single replacement whose old_text differs from new_text raises
\* EditError and leaves the buffer as it was when old_text occurs nowhere or
\* at more than one position of the buffer, and replaces just the one
\* occurrence when there is exactly one.
SingleEditRequiresUniqueMatch ==
    (tool.op = "edit" /\ ~tool.edit.replace_all /\ tool.edit.old_text # tool.edit.new_text) =>
        LET occ == Occurrences(tool.content, tool.edit.old_text)
        IN IF Cardinality(occ) = 1
           THEN /\ ~tool.result.raised
                /\ \A k \in occ :
                     tool.result.content =
                         ReplacedAt(tool.content, tool.edit.old_text, tool.edit.new_text, k)
           ELSE /\ tool.result.raised
                /\ tool.result.content = tool.content
\* No task occurs twice in a history of the run.
NoRepeats(h) == \A a, b \in DOMAIN h : h[a] = h[b] => a = b

\* The calls made for the task being appended, and for the run so far.
CallBudget ==
    /\ NoRepeats(generated)
    /\ NoRepeats(appended)
    /\ \A a \in DOMAIN appended : \E g \in DOMAIN generated : generated[g] = appended[a]
    /\ pc \in {"review", "improve", "append"} =>
           /\ generated # <<>>
           /\ generated[Len(generated)] = i
           /\ nReviews <= max_iterations
           /\ nImproves <= max_iterations

\* C35: a run of generate_document in which every model call returns ends,
\* for every task list and every max_iterations >= 0, and for each task it
\* makes exactly one generation call, at most max_iterations review calls and
\* at most max_iterations improve calls before the one append of the task.
PipelineTerminatesInBudget ==
    /\ [](CallBudget)
    /\ (pc \in Running) ~> (pc \in Stopped)

PipelineTerminatesWitness ==
    /\ pc = "done"
    /\ runs = 1
    /\ Len(appended) >= 2
    /\ generated = appended
    /\ max_iterations = MaxIter
    /\ nReviews = MaxIter
    /\ nImproves = MaxIter

\* C36: a resumed run appends the remaining sections to the output file the
\* checkpoint records, whatever output_file argument the resuming call has.
ResumeWritesToRecordedFile ==
    tool.op = "resume" =>
        /\ tool.after[tool.recorded] = SectionRange(0, tool.n)
        /\ \A f \in OutputFiles \ {tool.recorded} : tool.after[f] = tool.before[f]

\* C37: in the block generator's review loop an iteration treats the review
\* as failed exactly when improve_block makes a model call, for every
\* feedback review_block can return.
BlockLoopAgreesWithImprover ==
    tool.op = "block_loop" =>
        \A k \in DOMAIN tool.iterations :
            tool.iterations[k].failed <=> tool.iterations[k].requests = 1

\* C38: generate_with_review assembles exactly one entry for each block, in
\* block order, for every max_iterations >= 0 and all reviewer verdicts.
EveryBlockSurvivesReview ==
    tool.op = "review_blocks" =>
        /\ Len(tool.improved_blocks) = tool.n
        /\ \A b \in DOMAIN tool.improved_blocks : tool.improved_blocks[b].block = b

\* OrchestrationState.load: the state built from a checkpoint.
LoadState(cp) ==
    [topic |-> cp.topic, output_file |-> cp.output_file, target_lines |-> cp.target_lines,
     current_task_index |-> LoadIndex(cp), total_lines |-> cp.total_lines,
     start_time |-> cp.start_time, tasks |-> LoadTasks(cp)]

\* The OrchestrationState of the run.
StateInMemory ==
    [topic |-> RunHeader.topic, output_file |-> RunHeader.output_file,
     target_lines |-> RunHeader.target_lines, current_task_index |-> current_task_index,
     total_lines |-> total_lines, start_time |-> RunHeader.start_time, tasks |-> tasks]

\* C39: loading what save writes of a state of a run gives the state back,
\* on the run's arguments, the index, the line total and every field of
\* every task in order, content and summary included.
CheckpointRoundTrip ==
    InMemory => LoadState(Checkpoint(tasks, current_task_index, total_lines)) = StateInMemory

CheckpointRoundTripWitness ==
    /\ pc = "gen"
    /\ resumedFrom = 1
    /\ i = 1
    /\ stateFile # <<>>
    /\ LoadState(stateFile[1]) = StateInMemory
    /\ tasks[1].completed /\ tasks[1].require_table
    /\ ~tasks[2].completed /\ tasks[2].require_mermaid
====
